---- MODULE Spec2Model ----
\* Model of qfconvert/keystroker.py: the movement planner (Keystroker.move),
\* the per-area planner (Keystroker.plot) with its sizing strategies, the
\* keycode translator, the macro serializer, the keybinding-file parser and
\* the command-body splitter.
EXTENDS Integers, Sequences, FiniteSets, TLC

VARIABLES
    \* Keystroker.move: the loop state
    start, end, zoffset, keys, allow_backtrack, allowjumps, origin, grid, mpc,
    \* Keystroker.plot: the build configuration and the planner state
    buildconfig, cursor, last_command, last_submenu, plot_keys, visited,
    config0, cursor0, keys_ref, area, subs, newpos, codes, nextcmd_ref,
    nextcodes, idx, ppc,
    \* the module-level KEY_LIST, the keybinding file, the last conversion, the
    \* number of conversions and of calls of parse_interface_txt in this process
    KEY_LIST, file, conv, nconv, parses,
    \* the last call of translate_keycodes, of split_keystring_into_keycodes
    \* and of Keystroker.setmats
    xlat, split_call, mats_call

moveVars == <<start, end, zoffset, keys, allow_backtrack, allowjumps, origin,
              grid, mpc>>
plotVars == <<buildconfig, cursor, last_command, last_submenu, plot_keys,
              visited, config0, cursor0, keys_ref, area, subs, newpos, codes,
              nextcmd_ref, nextcodes, idx, ppc>>
keyVars == <<KEY_LIST, file, conv, nconv, parses>>
funVars == <<xlat, split_call, mats_call>>
vars == <<moveVars, plotVars, keyVars, funVars>>

\* ---------------------------------------------------------------- bounds
MaxX == 18
MaxY == 8
MaxZ == 1
PlotFarX == 9
PlotFarY == 2
MaxNextcmd == 4
MaxPlots == 2
MaxKeys == 2
MaxConvKeys == 2
MaxConversions == 2
MaxKeystring == 3
MaxAreaSize == 121

\* ------------------------------------------------- program constants
JumpLen == 10
JumpThreshold == 8

\* ------------------------------------------------------------ geometry
Point(x, y) == [x |-> x, y |-> y]

Abs(n) == IF n < 0 THEN -n ELSE n
Sign(n) == IF n < 0 THEN -1 ELSE IF n > 0 THEN 1 ELSE 0
Min(a, b) == IF a <= b THEN a ELSE b
Rep(k, n) == [i \in 1..n |-> k]

Compasses == {"n", "ne", "e", "se", "s", "sw", "w", "nw"}

\* Direction.delta(): the unit vector of a compass direction (y grows south)
delta(c) ==
    CASE c = "n"  -> Point(0, -1)
      [] c = "ne" -> Point(1, -1)
      [] c = "e"  -> Point(1, 0)
      [] c = "se" -> Point(1, 1)
      [] c = "s"  -> Point(0, 1)
      [] c = "sw" -> Point(-1, 1)
      [] c = "w"  -> Point(-1, 0)
      [] c = "nw" -> Point(-1, -1)

\* Direction.get_direction(start, end).compass
get_direction(s, e) ==
    CHOOSE c \in Compasses :
        delta(c) = Point(Sign(e.x - s.x), Sign(e.y - s.y))

\* Point + Point * n
Advance(p, d, n) == Point(p.x + d.x * n, p.y + d.y * n)

\* grid.is_out_of_bounds(point)
is_out_of_bounds(g, p) == p.x < 0 \/ p.y < 0 \/ p.x >= g.w \/ p.y >= g.h

\* --------------------------------------------------- Keystroker.move
StepKey(c) ==
    CASE c = "n"  -> "[n]"   [] c = "ne" -> "[ne]"
      [] c = "e"  -> "[e]"   [] c = "se" -> "[se]"
      [] c = "s"  -> "[s]"   [] c = "sw" -> "[sw]"
      [] c = "w"  -> "[w]"   [] c = "nw" -> "[nw]"

JumpKeyAsStep(c) == StepKey(c)
JumpKey(c) ==
    CASE c = "n"  -> "[+n]"  [] c = "ne" -> "[+ne]"
      [] c = "e"  -> "[+e]"  [] c = "se" -> "[+se]"
      [] c = "s"  -> "[+s]"  [] c = "sw" -> "[+sw]"
      [] c = "w"  -> "[+w]"  [] c = "nw" -> "[+nw]"

\* steps: unit moves in the chosen direction before axis alignment is used up
MoveStepsMax(s, e) ==
    LET dx == Abs(s.x - e.x)
        dy == Abs(s.y - e.y)
    IN  IF dx > dy THEN dx ELSE dy
MoveSteps(s, e) ==
    LET dx == Abs(s.x - e.x)
        dy == Abs(s.y - e.y)
    IN  IF dx = 0 THEN dy ELSE IF dy = 0 THEN dx ELSE Min(dx, dy)

\* whether the jump branch of the loop body takes the extra 10-unit jump
UseSingles(aj, steps, ab) == (~aj) \/ steps < JumpThreshold \/ ~ab

\* the leftover test of the backtracking optimization
WantsOverjumpAlways(leftover) == leftover >= 1
WantsOverjump(leftover) == leftover >= JumpThreshold

\* the bounds test that refuses the extra jump
OverjumpNeverBlocked(g, test) == FALSE
OverjumpBlocked(g, test) == is_out_of_bounds(g, test)

\* One iteration of the while loop of move: the keycodes it appends, the new
\* start and the new allow_backtrack.
MoveBody(g, s, e, ab, aj) ==
    LET c        == get_direction(s, e)
        steps    == MoveSteps(s, e)
        mv       == delta(c)
        jumps    == steps \div JumpLen
        leftover == steps % JumpLen
        test     == Advance(s, mv, JumpLen * (jumps + 1))
    IN  IF UseSingles(aj, steps, ab)
        THEN [keys |-> Rep(StepKey(c), steps),
              start |-> Advance(s, mv, steps),
              allow_backtrack |-> TRUE]
        ELSE IF WantsOverjump(leftover)
        THEN IF OverjumpBlocked(g, test)
             THEN [keys |-> Rep(StepKey(c), leftover) \o Rep(JumpKey(c), jumps),
                   start |-> Advance(s, mv, steps),
                   allow_backtrack |-> FALSE]
             ELSE [keys |-> Rep(JumpKey(c), jumps + 1),
                   start |-> Advance(s, mv, JumpLen * (jumps + 1)),
                   allow_backtrack |-> TRUE]
        ELSE [keys |-> Rep(StepKey(c), leftover) \o Rep(JumpKey(c), jumps),
              start |-> Advance(s, mv, steps),
              allow_backtrack |-> TRUE]

\* the keycodes emitted before the loop for the z-level change
ZKeys(z) ==
    IF z > 0 THEN Rep(">", z)
    ELSE IF z < 0 THEN Rep("<", Abs(z))
    ELSE <<>>

\* the whole of move(start, end) as plot and the sizing strategies call it:
\* zoffset=0 (no z keycodes), allowjumps=True
RECURSIVE MoveLoop(_, _, _, _, _)
MoveLoop(g, s, e, ab, aj) ==
    IF s = e THEN <<>>
    ELSE LET r == MoveBody(g, s, e, ab, aj)
         IN  r.keys \o MoveLoop(g, r.start, e, r.allow_backtrack, aj)

move(g, s, e) == MoveLoop(g, s, e, TRUE, TRUE)

\* ------------------------------------------------ replaying keycodes
KeyDelta(k) ==
    IF \E c \in Compasses : k = StepKey(c)
    THEN delta(CHOOSE c \in Compasses : k = StepKey(c))
    ELSE IF \E c \in Compasses : k = JumpKey(c)
    THEN LET d == delta(CHOOSE c \in Compasses : k = JumpKey(c))
         IN  Point(d.x * JumpLen, d.y * JumpLen)
    ELSE Point(0, 0)

RECURSIVE Replay(_, _)
Replay(p, ks) ==
    IF ks = <<>> THEN p
    ELSE Replay(Point(p.x + KeyDelta(Head(ks)).x, p.y + KeyDelta(Head(ks)).y),
                Tail(ks))

\* ------------------------------------ split_keystring_into_keycodes
Ch(s, i) == SubSeq(s, i, i)
From(s, i) == SubSeq(s, i, Len(s))
CharsOf(s) == [i \in 1..Len(s) |-> Ch(s, i)]

\* re.sub of every occurrence of the character ch by the text repl
RECURSIVE SubChar(_, _, _)
SubChar(s, ch, repl) ==
    IF Len(s) = 0 THEN ""
    ELSE (IF Ch(s, 1) = ch THEN repl ELSE Ch(s, 1)) \o SubChar(From(s, 2), ch, repl)

\* re.sub(r'\+\!', '|+!|', s): leftmost, non-overlapping
RECURSIVE SubPlusBang(_)
SubPlusBang(s) ==
    IF Len(s) = 0 THEN ""
    ELSE IF Len(s) >= 2 /\ Ch(s, 1) = "+" /\ Ch(s, 2) = "!"
    THEN "|+!|" \o SubPlusBang(From(s, 3))
    ELSE Ch(s, 1) \o SubPlusBang(From(s, 2))

\* the five re.sub calls, in the order of the source
CmdEdit(keystring) ==
    LET e1 == SubChar(keystring, "{", "|{")
        e2 == SubChar(e1, "}", "}|")
        e3 == SubPlusBang(e2)
        e4 == SubChar(e3, "!", "|!|")
    IN  SubChar(e4, "^", "|^|")

\* re.split(r'\|+', s): the pieces between runs of '|', empty pieces at the
\* two ends included
RECURSIVE SplitRec(_, _, _, _, _)
SplitRec(s, i, cur, out, prevBar) ==
    IF i > Len(s) THEN Append(out, cur)
    ELSE IF Ch(s, i) = "|"
    THEN IF prevBar THEN SplitRec(s, i + 1, "", out, TRUE)
         ELSE SplitRec(s, i + 1, "", Append(out, cur), TRUE)
    ELSE SplitRec(s, i + 1, cur \o Ch(s, i), out, FALSE)

ReSplit(s) == SplitRec(s, 1, "", <<>>, FALSE)

\* k[0] in ('{', '!', '^', '+'): the piece is kept whole
KeepsWhole(k) == Ch(k, 1) \in {"{", "!", "^", "+"}

\* the loop over cmdsplit; k[0] of an empty piece raises IndexError
RECURSIVE BreakPieces(_, _)
BreakPieces(pieces, acc) ==
    IF pieces = <<>> THEN [raised |-> FALSE, codes |-> acc]
    ELSE LET k == Head(pieces)
         IN  IF Len(k) = 0 THEN [raised |-> TRUE, codes |-> <<>>]
             ELSE IF KeepsWhole(k)
             THEN BreakPieces(Tail(pieces), Append(acc, k))
             ELSE BreakPieces(Tail(pieces), acc \o CharsOf(k))

split_keystring_into_keycodes(keystring) ==
    BreakPieces(ReSplit(CmdEdit(keystring)), <<>>)

\* ------------------------------------------------ sizing strategies
\* Point.midpoint(other)
midpoint(a, b) == Point((a.x + b.x) \div 2, (a.y + b.y) \div 2)

\* Area(start, end).width() / height() / size()
AreaWidth(a, b) == Abs(a.x - b.x) + 1
AreaHeight(a, b) == Abs(a.y - b.y) + 1
AreaSize(a, b) == AreaWidth(a, b) * AreaHeight(a, b)

\* Area.opposite_corner(corner) of the rectangle with corners c1, c2
opposite_corner(c1, c2, pos) ==
    Point(IF pos.x = c1.x THEN c2.x ELSE c1.x,
          IF pos.y = c1.y THEN c2.y ELSE c1.y)

setsize_standard(g, s, e) == [keys |-> move(g, s, e), newpos |-> e]

\* the position setsize_build reports as the cursor's
BuildNewposEnd(s, e) == e
BuildNewpos(s, e) == midpoint(s, e)

setsize_build(g, s, e) ==
    [keys |-> move(g, s, midpoint(s, e))
                \o Rep("[widen]", AreaWidth(s, e) - 1)
                \o Rep("[heighten]", AreaHeight(s, e) - 1),
     newpos |-> BuildNewpos(s, e)]

setsize_fixed_end(g, s, e) ==
    [keys |-> move(g, s, midpoint(s, e)), newpos |-> e]
setsize_fixed(g, s, e) ==
    [keys |-> move(g, s, midpoint(s, e)), newpos |-> midpoint(s, e)]

\* getattr(self, name)(start, end)
SetSizeStrategies == {"setsize_standard", "setsize_build", "setsize_fixed"}
SetSize(name, g, s, e) ==
    CASE name = "setsize_standard" -> setsize_standard(g, s, e)
      [] name = "setsize_build"    -> setsize_build(g, s, e)
      [] name = "setsize_fixed"    -> setsize_fixed(g, s, e)

\* ------------------------------------------------------------ setmats
ISqrt(n) == CHOOSE r \in 0..n : r * r <= n /\ (r + 1) * (r + 1) > n

RECURSIVE Pairs(_, _, _)
Pairs(a, b, n) == IF n <= 0 THEN <<>> ELSE <<a, b>> \o Pairs(a, b, n - 1)

setmats_reps_pairs(areasize) ==
    IF areasize = 1 THEN <<"#">>
    ELSE Append(Pairs("#", "[menudown]", 2 * ISqrt(areasize)), "#")
setmats(areasize) ==
    IF areasize = 1 THEN <<"#">>
    ELSE Append(Pairs("#", "[menudown]", 2 * ISqrt(areasize) - 1), "#")

\* ------------------------------------------- Keystroker.plot: submenus
\* re.match(k, command) for a pattern k that is a literal prefix
ReMatch(k, command) ==
    Len(k) <= Len(command) /\ SubSeq(command, 1, Len(k)) = k

\* the test that decides whether the for loop found a submenu
NoSubmenuFound(st) == (~st.jc_set) \/ st.jc = ""

\* the body of "for k in submenukeys" for one pattern k
SubmenuStep(st, k, command) ==
    IF ~ReMatch(k, command) THEN st
    ELSE LET submenu == Ch(command, 1)
             st1 == IF st.last_submenu = ""
                    THEN [st EXCEPT !.menu = <<submenu>>, !.exitmenu = <<>>,
                                    !.last_submenu = submenu]
                    ELSE IF st.last_submenu # submenu
                    THEN [st EXCEPT !.menu = <<submenu>>, !.exitmenu = <<"^">>,
                                    !.last_submenu = submenu]
                    ELSE [st EXCEPT !.menu = <<>>, !.exitmenu = <<>>]
         IN  [st1 EXCEPT !.jc_set = TRUE, !.jc = From(command, 2)]

RECURSIVE SubmenuLoop(_, _, _)
SubmenuLoop(st, patterns, command) ==
    IF patterns = <<>> THEN st
    ELSE SubmenuLoop(SubmenuStep(st, Head(patterns), command),
                     Tail(patterns), command)

\* lines 124-161: the submenu slots, the new last_submenu and justcommand
HandleSubmenus(submenukeys, command, last) ==
    LET st0 == [menu |-> <<>>, exitmenu |-> <<>>, last_submenu |-> last,
                jc_set |-> FALSE, jc |-> ""]
        st  == SubmenuLoop(st0, submenukeys, command)
    IN  IF NoSubmenuFound(st)
        THEN [menu |-> <<>>,
              exitmenu |-> IF st.last_submenu # "" THEN <<"^">> ELSE <<>>,
              last_submenu |-> "",
              justcommand |-> command]
        ELSE [menu |-> st.menu, exitmenu |-> st.exitmenu,
              last_submenu |-> st.last_submenu, justcommand |-> st.jc]

\* --------------------------------------- Keystroker.plot: templating
\* "p in subs": the slots the dictionary holds when the pattern is applied
SlotNames(s) ==
    {"moveto", "setsize", "menu", "exitmenu", "cmd"}
        \cup (IF s.has_setmats THEN {"setmats"} ELSE {})

SlotValue(s, p) ==
    CASE p = "moveto"   -> s.moveto
      [] p = "setsize"  -> s.setsize
      [] p = "setmats"  -> s.setmats
      [] p = "menu"     -> s.menu
      [] p = "exitmenu" -> s.exitmenu
      [] p = "cmd"      -> s.cmd

\* lines 179-185: the designate pattern with the slots filled in
RECURSIVE ApplyPattern(_, _)
ApplyPattern(pattern, s) ==
    IF pattern = <<>> THEN <<>>
    ELSE (IF Head(pattern) \in SlotNames(s)
          THEN SlotValue(s, Head(pattern))
          ELSE <<Head(pattern)>>) \o ApplyPattern(Tail(pattern), s)

\* keys = self.buildconfig.get('init') or []
InitKeysEmpty(cfg) == <<>>
InitKeys(cfg) == cfg.init

\* buildconfig.get(label, command) or []: the list object the planner gets;
\* a non-empty list is the configuration's own list
ConfigRef(cfg, label) == IF cfg[label] = <<>> THEN "fresh" ELSE label

\* the list nextcmd names
NextcmdOf(cfg, ref) == IF ref = "fresh" THEN <<>> ELSE cfg[ref]

\* ------------------------------------------------------------ KEY_LIST
KEY_LIST_key ==
    (">" :> "^5") @@ ("<" :> "+5") @@
    ("[n]" :> "8") @@ ("[ne]" :> "9") @@ ("[e]" :> "6") @@ ("[se]" :> "3") @@
    ("[s]" :> "2") @@ ("[sw]" :> "1") @@ ("[w]" :> "4") @@ ("[nw]" :> "7") @@
    ("[+n]" :> "+8") @@ ("[+ne]" :> "+9") @@ ("[+e]" :> "+6") @@
    ("[+se]" :> "+3") @@ ("[+s]" :> "+2") @@ ("[+sw]" :> "+1") @@
    ("[+w]" :> "+4") @@ ("[+nw]" :> "+7") @@
    ("[widen]" :> "k") @@ ("[heighten]" :> "u") @@
    ("[menudown]" :> "{NumpadAdd}") @@ ("[menuup]" :> "{NumpadSub}") @@
    ("!" :> "{Enter}") @@ ("#" :> "+{Enter}") @@ ("%" :> "{wait}") @@
    ("^" :> "{Esc}")

KEY_LIST_macro ==
    (">" :> ">") @@ ("<" :> "<") @@
    ("[n]" :> "0:8") @@ ("[ne]" :> "0:9") @@ ("[e]" :> "0:6") @@
    ("[se]" :> "0:3") @@ ("[s]" :> "0:2") @@ ("[sw]" :> "0:1") @@
    ("[w]" :> "0:4") @@ ("[nw]" :> "0:7") @@
    ("[+n]" :> "1:8") @@ ("[+ne]" :> "1:9") @@ ("[+e]" :> "1:6") @@
    ("[+se]" :> "1:3") @@ ("[+s]" :> "1:2") @@ ("[+sw]" :> "1:1") @@
    ("[+w]" :> "1:4") @@ ("[+nw]" :> "1:7") @@
    ("[widen]" :> "k") @@ ("[heighten]" :> "u") @@
    ("[menudown]" :> "+") @@ ("[menuup]" :> "-") @@
    ("!" :> "0:Enter") @@ ("#" :> "1:Enter") @@ ("%" :> "")

\* the dictionary as the module defines it: one table per mode
KEY_LIST_static == ("key" :> KEY_LIST_key) @@ ("macro" :> KEY_LIST_macro)

\* --------------------------------------------------- translate_keycode
\* "x or keycode": the values Python takes for false
Falsy(v) == v = ""

\* KEY_LIST[mode].get(keycode) or keycode
translate_keycode(kl, keycode, mode) ==
    IF keycode \in DOMAIN kl[mode] /\ ~Falsy(kl[mode][keycode])
    THEN kl[mode][keycode]
    ELSE keycode

\* translate_keycodes: KEY_LIST[mode] raises KeyError for a mode the
\* dictionary does not hold, once there is a keycode to translate
translate_keycodes(kl, keycodes, mode) ==
    IF keycodes # <<>> /\ mode \notin DOMAIN kl
    THEN [raised |-> TRUE, error |-> "KeyError", keys |-> <<>>]
    ELSE [raised |-> FALSE, error |-> "",
          keys |-> [i \in 1..Len(keycodes) |->
                        translate_keycode(kl, keycodes[i], mode)]]

\* ------------------------------------------------- parse_interface_txt
\* re.sub(r'(\w+):.+', r'\1', header) for a header "NAME:REST"
RECURSIVE BindName(_, _)
BindName(h, i) ==
    IF i >= Len(h) THEN h
    ELSE IF Ch(h, i) = ":" /\ i > 1 THEN SubSeq(h, 1, i - 1)
    ELSE BindName(h, i + 1)

\* re.sub(r'\[(KEY:|SYM:)(.+?)\]', r'\2', line) for a line that is one
\* bracketed identifier, or holds no markup
StripMarkup(line) ==
    IF Len(line) > 6 /\ SubSeq(line, 1, 5) \in {"[KEY:", "[SYM:"}
       /\ Ch(line, Len(line)) = "]"
    THEN SubSeq(line, 6, Len(line) - 1)
    ELSE line

\* keybinds[k].append('\t\t' + bind), after keybinds[k] = [] for a new key
AddBindingOverwrite(kb, k, bind) ==
    (k :> <<"\t\t" \o bind>>) @@ kb
AddBinding(kb, k, bind) ==
    IF k \in DOMAIN kb
    THEN [kb EXCEPT ![k] = Append(@, "\t\t" \o bind)]
    ELSE kb @@ (k :> <<"\t\t" \o bind>>)

\* "for k in keys" of one bind-group
RECURSIVE BindKeys(_, _, _)
BindKeys(kb, lines, bind) ==
    IF lines = <<>> THEN kb
    ELSE LET k == StripMarkup(Head(lines))
         IN  IF k = "" THEN BindKeys(kb, Tail(lines), bind)
             ELSE BindKeys(AddBinding(kb, k, bind), Tail(lines), bind)

\* "for kb in groups"
RECURSIVE BindGroups(_, _)
BindGroups(kb, groups) ==
    IF groups = <<>> THEN kb
    ELSE BindGroups(BindKeys(kb, Head(groups).lines,
                             BindName(Head(groups).header, 1)),
                    Tail(groups))

\* the dictionary the parse starts from: keybinds = KEY_LIST
ParseSeed(kl) == kl

\* parse_interface_txt: the table it returns, which is KEY_LIST itself
parse_interface_txt(kl, f) == BindGroups(ParseSeed(kl), f)

\* ----------------------------------------------------- convert_to_macro
\* keybinds.get(key) is None
key_unbound(kb, key) == key \notin DOMAIN kb

\* the lines one keycode contributes
KeyLinesNoGroupEnd(kb, key) ==
    IF key = "^" THEN <<"\t\tLEAVESCREEN">> ELSE kb[key]
KeyLines(kb, key) ==
    (IF key = "^" THEN <<"\t\tLEAVESCREEN">> ELSE kb[key])
        \o <<"\tEnd of group">>

RECURSIVE MacroLoopSkip(_, _, _)
MacroLoopSkip(kb, keycodes, output) ==
    IF keycodes = <<>>
    THEN [raised |-> FALSE, key |-> "", lines |-> Append(output, "End of macro")]
    ELSE IF key_unbound(kb, Head(keycodes))
    THEN MacroLoopSkip(kb, Tail(keycodes), output)
    ELSE MacroLoopSkip(kb, Tail(keycodes),
                       output \o KeyLines(kb, Head(keycodes)))

RECURSIVE MacroLoop(_, _, _)
MacroLoop(kb, keycodes, output) ==
    IF keycodes = <<>>
    THEN [raised |-> FALSE, key |-> "", lines |-> Append(output, "End of macro")]
    ELSE IF key_unbound(kb, Head(keycodes))
    THEN [raised |-> TRUE, key |-> Head(keycodes), lines |-> <<>>]
    ELSE MacroLoop(kb, Tail(keycodes), output \o KeyLines(kb, Head(keycodes)))

\* convert_to_macro(keycodes, title) for the title in use (the generated one
\* when the caller gave none), over the table the parse returned
convert_to_macro(kb, keycodes, title) == MacroLoop(kb, keycodes, <<title>>)

\* ---------------------------------------------------------- convert_keys
RECURSIVE Join(_, _)
Join(strs, sep) ==
    IF strs = <<>> THEN ""
    ELSE IF Len(strs) = 1 THEN strs[1]
    ELSE strs[1] \o sep \o Join(Tail(strs), sep)

\* convert_keys(keys, mode, title): the outcome and the KEY_LIST it leaves;
\* rnd is the number random.randrange gives when the title is empty
convert_keys(kl, f, keycodes, mode, title, rnd) ==
    LET tr == translate_keycodes(kl, keycodes, mode)
    IN  IF tr.raised
        THEN [kind |-> "error", error |-> tr.error, key |-> "", text |-> "",
              keys |-> <<>>, parsed |-> FALSE, KEY_LIST |-> kl]
        ELSE IF mode = "macro"
        THEN LET kb == parse_interface_txt(kl, f)
                 t  == IF title = "" THEN "@@@qf" \o rnd ELSE title
                 m  == convert_to_macro(kb, tr.keys, t)
             IN  IF m.raised
                 THEN [kind |-> "error", error |-> "not bound", key |-> m.key,
                       text |-> "", keys |-> tr.keys, parsed |-> TRUE,
                       KEY_LIST |-> kb]
                 ELSE [kind |-> "text", error |-> "", key |-> "",
                       text |-> Join(m.lines, "\n") \o "\n",
                       keys |-> tr.keys, parsed |-> TRUE, KEY_LIST |-> kb]
        ELSE IF mode = "key"
        THEN [kind |-> "text", error |-> "", key |-> "",
              text |-> Join(tr.keys, ""), keys |-> tr.keys, parsed |-> FALSE,
              KEY_LIST |-> kl]
        ELSE [kind |-> "error", error |-> "Unknown mode", key |-> "",
              text |-> "", keys |-> tr.keys, parsed |-> FALSE, KEY_LIST |-> kl]

\* --------------------------------------------- specification of move
Positions == {Point(x, y) : x \in 0..MaxX, y \in 0..MaxY}
\* start positions: the corners, the edge midpoints and the centre
StartPositions ==
    {Point(x, y) : x \in {0, MaxX \div 2, MaxX}, y \in {0, MaxY \div 2, MaxY}}
\* grid bounds: the positions exactly, ten more cells on each axis, and a
\* narrow grid that leaves the far positions outside
Grids == {[w |-> MaxX + 1, h |-> MaxY + 1],
          [w |-> MaxX + 1 + JumpLen, h |-> MaxY + 1 + JumpLen],
          [w |-> JumpLen, h |-> MaxY + 1]}

MoveIdle ==
    /\ start = Point(0, 0)
    /\ zoffset = 0
    /\ end = Point(0, 0)
    /\ origin = Point(0, 0)
    /\ allowjumps = TRUE
    /\ allow_backtrack = TRUE
    /\ keys = <<>>
    /\ mpc = "idle"

NoArea == [pos |-> Point(0, 0), endpos |-> Point(0, 0), command |-> "",
           prev_submenu |-> "", prev_cursor |-> Point(0, 0), template |-> <<>>,
           count |-> 0]
NoSubs == [moveto |-> <<>>, setsize |-> <<>>, setmats |-> <<>>,
           has_setmats |-> FALSE, menu |-> <<>>, exitmenu |-> <<>>,
           cmd |-> <<>>]
NoConfig == [init |-> <<>>, samecmd |-> <<>>, diffcmd |-> <<>>,
             designate |-> <<>>, setsize |-> "", setmats |-> "",
             submenukeys |-> <<>>]

PlotIdle ==
    /\ buildconfig = NoConfig
    /\ config0 = NoConfig
    /\ cursor = Point(0, 0)
    /\ cursor0 = Point(0, 0)
    /\ last_command = ""
    /\ last_submenu = ""
    /\ plot_keys = <<>>
    /\ keys_ref = "fresh"
    /\ visited = {}
    /\ area = NoArea
    /\ subs = NoSubs
    /\ newpos = Point(0, 0)
    /\ codes = <<>>
    /\ nextcmd_ref = "fresh"
    /\ nextcodes = <<>>
    /\ idx = 0
    /\ ppc = "idle"

NoConv == [keycodes |-> <<>>, mode |-> "", title |-> "", kind |-> "",
           error |-> "", key |-> "", text |-> "", keys |-> <<>>]
NoXlat == [keycodes |-> <<>>, mode |-> "", raised |-> FALSE, keys |-> <<>>]
NoSplit == [keystring |-> "", pc |-> "idle", raised |-> FALSE, codes |-> <<>>]
NoMats == [areasize |-> 1, pc |-> "idle", keys |-> <<>>]

\* KEY_LIST as the module defines it; no conversion made yet
KeysIdle ==
    /\ KEY_LIST = KEY_LIST_static
    /\ file = <<>>
    /\ conv = NoConv
    /\ nconv = 0
    /\ parses = 0

FunIdle ==
    /\ xlat = NoXlat
    /\ split_call = NoSplit
    /\ mats_call = NoMats

MoveInit ==
    /\ start \in StartPositions
    /\ end \in Positions
    /\ origin = start
    /\ grid \in Grids
    /\ allowjumps \in BOOLEAN
    /\ zoffset \in -MaxZ..MaxZ
    /\ allow_backtrack = TRUE
    /\ keys = ZKeys(zoffset)
    /\ mpc = "loop"
    /\ PlotIdle
    /\ KeysIdle
    /\ FunIdle

\* one iteration of "while start != end"
MoveIterate ==
    /\ mpc = "loop"
    /\ start # end
    /\ LET r == MoveBody(grid, start, end, allow_backtrack, allowjumps)
       IN  /\ keys' = keys \o r.keys
           /\ start' = r.start
           /\ allow_backtrack' = r.allow_backtrack
    /\ UNCHANGED <<end, zoffset, allowjumps, origin, grid, mpc>>
    /\ UNCHANGED <<plotVars, keyVars, funVars>>

\* "return keys"
MoveReturn ==
    /\ mpc = "loop"
    /\ start = end
    /\ mpc' = "done"
    /\ UNCHANGED <<start, end, zoffset, keys, allow_backtrack, allowjumps,
                   origin, grid>>
    /\ UNCHANGED <<plotVars, keyVars, funVars>>

MoveNext == MoveIterate \/ MoveReturn

SpecMove == MoveInit /\ [][MoveNext]_vars

\* move(start, end) as plot and the sizing strategies call it (no z-level
\* change); the call runs on: a loop iteration or the return that can be
\* taken, is taken
MoveInitFlat == MoveInit /\ zoffset = 0
SpecMoveFair == MoveInitFlat /\ [][MoveNext]_vars /\ WF_vars(MoveNext)

\* --------------------------------------------- specification of plot
PlotPositions == {Point(0, 0), Point(PlotFarX, 0), Point(2, PlotFarY)}
PlotCursors == {Point(0, 0), Point(2, PlotFarY)}
PlotGrid == [w |-> PlotFarX + 2, h |-> PlotFarY + 1]
Commands == {"d", "e", "ea", "ib"}

BaseConfig ==
    [init |-> <<>>, samecmd |-> <<"cmd">>, diffcmd |-> <<"cmd">>,
     designate |-> <<"moveto", "exitmenu", "menu", "cmd", "setsize", "!">>,
     setsize |-> "setsize_standard", setmats |-> "",
     submenukeys |-> <<"e", "i">>]

Configs ==
    {BaseConfig}
    \cup {[BaseConfig EXCEPT !.init = <<"b">>]}
    \cup {[BaseConfig EXCEPT !.samecmd = t] : t \in {<<>>, <<"cmd", "!">>}}
    \cup {[BaseConfig EXCEPT !.diffcmd = <<"^", "cmd">>]}
    \cup {[BaseConfig EXCEPT !.designate = <<"setsize", "cmd", "moveto", "setmats">>]}
    \cup {[BaseConfig EXCEPT !.setsize = n] : n \in SetSizeStrategies}
    \cup {[BaseConfig EXCEPT !.setmats = "setmats",
                             !.designate = <<"moveto", "cmd", "setsize", "setmats">>]}
    \cup {[BaseConfig EXCEPT !.submenukeys = k] : k \in {<<>>, <<"e", "ea", "i">>}}

PlotInit ==
    /\ MoveIdle
    /\ KeysIdle
    /\ FunIdle
    /\ grid = PlotGrid
    /\ buildconfig \in Configs
    /\ config0 = buildconfig
    /\ cursor \in PlotCursors
    /\ cursor0 = cursor
    /\ last_command = ""
    /\ last_submenu = ""
    /\ keys_ref = ConfigRef(buildconfig, "init")
    /\ plot_keys = InitKeys(buildconfig)
    /\ visited = {}
    /\ area = NoArea
    /\ subs = NoSubs
    /\ newpos = cursor
    /\ codes = <<>>
    /\ nextcmd_ref = "fresh"
    /\ nextcodes = <<>>
    /\ idx = 0
    /\ ppc = "loop"

\* lines 97-167: the next position of the plot list, up to the start of the
\* substitution loop; the cell the grid holds there is any command with any
\* area that has pos as a corner
PlotArea ==
    /\ ppc = "loop"
    /\ area.count < MaxPlots
    /\ \E pos \in PlotPositions \ visited, far \in PlotPositions,
          command \in Commands :
        LET c1     == Point(Min(pos.x, far.x), Min(pos.y, far.y))
            c2     == Point(pos.x + far.x - c1.x, pos.y + far.y - c1.y)
            endpos == opposite_corner(c1, c2, pos)
            ref    == IF command = last_command
                      THEN ConfigRef(buildconfig, "samecmd")
                      ELSE ConfigRef(buildconfig, "diffcmd")
        IN  \E sz \in {SetSize(buildconfig.setsize, grid, pos, endpos)},
               sm \in {HandleSubmenus(buildconfig.submenukeys, command,
                                      last_submenu)} :
            \E sp \in {split_keystring_into_keycodes(sm.justcommand)} :
            /\ visited' = visited \cup {pos}
            /\ area' = [pos |-> pos, endpos |-> endpos, command |-> command,
                        prev_submenu |-> last_submenu, prev_cursor |-> cursor,
                        template |-> NextcmdOf(buildconfig, ref),
                        count |-> area.count + 1]
            /\ last_command' = command
            /\ last_submenu' = sm.last_submenu
            /\ subs' = [moveto |-> move(grid, cursor, pos),
                        setsize |-> sz.keys,
                        setmats |-> IF buildconfig.setmats = "" THEN <<>>
                                    ELSE setmats(AreaSize(c1, c2)),
                        has_setmats |-> buildconfig.setmats # "",
                        menu |-> sm.menu, exitmenu |-> sm.exitmenu,
                        cmd |-> <<>>]
            /\ newpos' = sz.newpos
            /\ nextcmd_ref' = ref
            /\ nextcodes' = <<>>
            /\ idx' = 1
            /\ IF sp.raised
               THEN codes' = <<>> /\ ppc' = "raised"
               ELSE codes' = sp.codes /\ ppc' = "subst"
    /\ UNCHANGED <<buildconfig, config0, cursor0, cursor, plot_keys, keys_ref>>
    /\ UNCHANGED <<moveVars, keyVars, funVars>>

\* lines 168-172: one iteration of "for c in nextcmd"
PlotSubst ==
    /\ ppc = "subst"
    /\ idx <= Len(NextcmdOf(buildconfig, nextcmd_ref))
    /\ LET c == NextcmdOf(buildconfig, nextcmd_ref)[idx]
       IN  IF c = "cmd"
           THEN /\ nextcodes' = nextcodes \o codes
                /\ UNCHANGED buildconfig
           ELSE /\ Len(NextcmdOf(buildconfig, nextcmd_ref)) < MaxNextcmd
                /\ buildconfig' = [buildconfig EXCEPT ![nextcmd_ref] = Append(@, c)]
                /\ UNCHANGED nextcodes
    /\ idx' = idx + 1
    /\ UNCHANGED <<config0, cursor0, cursor, last_command, last_submenu, plot_keys,
                   visited, keys_ref, area, subs, newpos, codes, nextcmd_ref,
                   ppc>>
    /\ UNCHANGED <<moveVars, keyVars, funVars>>

\* lines 174-191: the loop over nextcmd has ended; fill the designate pattern,
\* extend keys and move the cursor
PlotDesignate ==
    /\ ppc = "subst"
    /\ idx > Len(NextcmdOf(buildconfig, nextcmd_ref))
    /\ subs' = [subs EXCEPT !.cmd = nextcodes]
    /\ plot_keys' = plot_keys \o ApplyPattern(buildconfig.designate, subs')
    /\ buildconfig' = IF keys_ref = "init"
                      THEN [buildconfig EXCEPT !.init = plot_keys']
                      ELSE buildconfig
    /\ cursor' = newpos
    /\ ppc' = "loop"
    /\ UNCHANGED <<config0, cursor0, last_command, last_submenu, visited, keys_ref, area,
                   newpos, codes, nextcmd_ref, nextcodes, idx>>
    /\ UNCHANGED <<moveVars, keyVars, funVars>>

\* line 192: the plot list is exhausted
PlotReturn ==
    /\ ppc = "loop"
    /\ ppc' = "done"
    /\ UNCHANGED <<buildconfig, config0, cursor0, cursor, last_command, last_submenu,
                   plot_keys, visited, keys_ref, area, subs, newpos, codes,
                   nextcmd_ref, nextcodes, idx>>
    /\ UNCHANGED <<moveVars, keyVars, funVars>>

PlotNext == PlotArea \/ PlotSubst \/ PlotDesignate \/ PlotReturn

SpecPlot == PlotInit /\ [][PlotNext]_vars

\* ------------------------------------- specification of convert_keys
Group(h, ls) == [header |-> h, lines |-> ls]

FileEmpty == <<>>
FileBasic ==
    <<Group("SELECT:REPEAT_NOT]", <<"[SYM:0:Enter]", "">>),
      Group("CURSOR_UP:REPEAT_SLOW]", <<"[SYM:0:8]", "">>),
      Group("DESIGNATE_DIG:REPEAT_NOT]", <<"[KEY:d]", "">>)>>
FileDouble ==
    <<Group("SELECT:REPEAT_NOT]", <<"[SYM:0:Enter]", "[SYM:0:Numpad Enter]", "">>),
      Group("MENU_CONFIRM:REPEAT_NOT]", <<"[SYM:0:Enter]", "[KEY:^]", "[KEY:%]", "">>)>>
Files == {FileEmpty, FileBasic, FileDouble}

Modes == {"key", "macro", "bogus"}
Titles == {"", "mytitle"}
RandomNumbers == {"0", "42"}
ConvKeycodes == {"!", "^", "d"}

RECURSIVE ListsUpTo(_, _)
ListsUpTo(S, n) ==
    IF n = 0 THEN {<<>>}
    ELSE ListsUpTo(S, n - 1)
         \cup {Append(l, k) : l \in ListsUpTo(S, n - 1), k \in S}

KeysInit ==
    /\ MoveIdle
    /\ grid = [w |-> 0, h |-> 0]
    /\ PlotIdle
    /\ FunIdle
    /\ KEY_LIST = KEY_LIST_static
    /\ file \in Files
    /\ conv = NoConv
    /\ nconv = 0
    /\ parses = 0

\* one call of convert_keys(keys, mode, title) in this process
ConvertKeys ==
    /\ nconv < MaxConversions
    /\ \E ks \in ListsUpTo(ConvKeycodes, MaxConvKeys), mode \in Modes,
          title \in Titles :
        \E rnd \in IF mode = "macro" /\ title = "" THEN RandomNumbers ELSE {""} :
            \E r \in {convert_keys(KEY_LIST, file, ks, mode, title, rnd)} :
                /\ conv' = [keycodes |-> ks, mode |-> mode, title |-> title,
                            kind |-> r.kind, error |-> r.error, key |-> r.key,
                            text |-> r.text, keys |-> r.keys]
                /\ KEY_LIST' = r.KEY_LIST
                /\ parses' = IF r.parsed THEN parses + 1 ELSE parses
    /\ nconv' = nconv + 1
    /\ UNCHANGED <<file, moveVars, plotVars, funVars>>

KeysNext == ConvertKeys

SpecKeys == KeysInit /\ [][KeysNext]_vars

\* -------------------------------- specification of translate_keycodes
AllKeycodes == (DOMAIN KEY_LIST_key) \cup {"d", "{Enter}", "+!"}

XlatInit ==
    /\ MoveIdle
    /\ grid = [w |-> 0, h |-> 0]
    /\ PlotIdle
    /\ KeysIdle
    /\ FunIdle

TranslateKeycodes ==
    /\ xlat = NoXlat
    /\ \E ks \in ListsUpTo(AllKeycodes, MaxKeys), mode \in Modes :
        LET r == translate_keycodes(KEY_LIST, ks, mode)
        IN  xlat' = [keycodes |-> ks, mode |-> mode, raised |-> r.raised,
                     keys |-> r.keys]
    /\ UNCHANGED <<split_call, mats_call, moveVars, plotVars, keyVars>>

XlatNext == TranslateKeycodes

SpecTranslate == XlatInit /\ [][XlatNext]_vars

\* -------------------- specification of split_keystring_into_keycodes
Alphabet == {"d", "{", "}", "!", "^", "+"}

RECURSIVE StringsUpTo(_)
StringsUpTo(n) ==
    IF n = 0 THEN {""}
    ELSE StringsUpTo(n - 1)
         \cup {s \o c : s \in StringsUpTo(n - 1), c \in Alphabet}

SplitInit ==
    /\ MoveIdle
    /\ grid = [w |-> 0, h |-> 0]
    /\ PlotIdle
    /\ KeysIdle
    /\ xlat = NoXlat
    /\ mats_call = NoMats
    /\ split_call \in {[keystring |-> s, pc |-> "called", raised |-> FALSE,
                        codes |-> <<>>] : s \in StringsUpTo(MaxKeystring)}

SplitKeystring ==
    /\ split_call.pc = "called"
    /\ LET r == split_keystring_into_keycodes(split_call.keystring)
       IN  split_call' = [split_call EXCEPT !.pc = "returned",
                                            !.raised = r.raised,
                                            !.codes = r.codes]
    /\ UNCHANGED <<xlat, mats_call, moveVars, plotVars, keyVars>>

SplitNext == SplitKeystring

SpecSplit == SplitInit /\ [][SplitNext]_vars

\* ------------------------------------------ specification of setmats
\* the cell counts of the areas a blueprint can hold
AreaSizes == 1..MaxAreaSize

SetmatsInit ==
    /\ MoveIdle
    /\ grid = [w |-> 0, h |-> 0]
    /\ PlotIdle
    /\ KeysIdle
    /\ xlat = NoXlat
    /\ split_call = NoSplit
    /\ mats_call \in {[areasize |-> n, pc |-> "called", keys |-> <<>>] :
                        n \in AreaSizes}

Setmats ==
    /\ mats_call.pc = "called"
    /\ mats_call' = [mats_call EXCEPT !.pc = "returned",
                                      !.keys = setmats(mats_call.areasize)]
    /\ UNCHANGED <<xlat, split_call, moveVars, plotVars, keyVars>>

SetmatsNext == Setmats

SpecSetmats == SetmatsInit /\ [][SetmatsNext]_vars

\* ================================================================ claims
Range(q) == {q[i] : i \in 1..Len(q)}
InGrid(g, p) == ~is_out_of_bounds(g, p)
Chebyshev(a, b) ==
    IF Abs(a.x - b.x) > Abs(a.y - b.y) THEN Abs(a.x - b.x) ELSE Abs(a.y - b.y)

\* C1: for every start A and end B (zoffset 0, jumps allowed or not, any grid
\* bounds), replaying the keycode list move(A, B) returns, a single step
\* moving 1 unit and a jump 10 units, ends with the cursor exactly at B.
C1_ReplayReachesEnd ==
    (mpc = "done" /\ zoffset = 0) => Replay(origin, keys) = end

\* a returned list that mixes jump and single-step keycodes
C1_Witness ==
    /\ mpc = "done"
    /\ zoffset = 0
    /\ origin # end
    /\ \E c \in Compasses : JumpKey(c) \in Range(keys)
    /\ \E c \in Compasses : StepKey(c) \in Range(keys)
    /\ Replay(origin, keys) = end

\* the area has been processed: the cursor was moved to newpos
AreaProcessed == ppc \in {"loop", "done"} /\ area.count > 0

TableMatches(command) ==
    \E i \in 1..Len(config0.submenukeys) :
        ReMatch(config0.submenukeys[i], command)
TableKeys(prev, command) ==
    IF TableMatches(command)
    THEN IF prev = "" THEN <<Ch(command, 1)>>
         ELSE IF prev = Ch(command, 1) THEN <<>>
         ELSE <<"^", Ch(command, 1)>>
    ELSE IF prev # "" THEN <<"^">> ELSE <<>>
TableState(command) ==
    IF TableMatches(command) THEN Ch(command, 1) ELSE ""

\* C3: for each command the 'exitmenu' slot followed by the 'menu' slot is
\* what the transition table gives for the submenu active before it, and the
\* tracker is left in the table's state.
C3_SubmenuTable ==
    (ppc \in {"subst", "loop", "done"} /\ area.count > 0) =>
        /\ subs.exitmenu \o subs.menu = TableKeys(area.prev_submenu, area.command)
        /\ last_submenu = TableState(area.command)

\* the template with every 'cmd' token replaced by the command-body keycodes
RECURSIVE Expand(_, _)
Expand(template, body) ==
    IF template = <<>> THEN <<>>
    ELSE (IF Head(template) = "cmd" THEN body ELSE <<Head(template)>>)
         \o Expand(Tail(template), body)

\* C4: while the template is substituted, the command-key value built from
\* its first tokens is those tokens with 'cmd' expanded and every other token
\* in place; the loop makes one pass over the template and the 'cmd' slot
\* ends as the whole template expanded.
C4_CmdSubstitution ==
    /\ ppc = "subst" =>
          /\ idx <= Len(area.template) + 1
          /\ nextcodes = Expand(SubSeq(area.template, 1, idx - 1), codes)
    /\ AreaProcessed => subs.cmd = Expand(area.template, codes)

\* C5: in macro mode, a translated keycode without an entry in the keybinding
\* table ends the conversion in an error naming the (first such) keycode, and
\* no macro text is returned.
C5_UnboundKeyFails ==
    (conv.mode = "macro"
        /\ \E i \in 1..Len(conv.keys) : conv.keys[i] \notin DOMAIN KEY_LIST) =>
        LET first == CHOOSE i \in 1..Len(conv.keys) :
                        /\ conv.keys[i] \notin DOMAIN KEY_LIST
                        /\ \A j \in 1..(i - 1) : conv.keys[j] \in DOMAIN KEY_LIST
        IN  /\ conv.kind = "error"
            /\ conv.error = "not bound"
            /\ conv.key = conv.keys[first]
            /\ conv.text = ""

\* a bound keycode followed by an unbound one: a partial macro existed
C5_Witness ==
    /\ conv.mode = "macro"
    /\ Len(conv.keys) = 2
    /\ conv.keys[1] \in DOMAIN KEY_LIST
    /\ conv.keys[2] \notin DOMAIN KEY_LIST
    /\ conv.kind = "error"
    /\ conv.key = conv.keys[2]

\* C6: after a parse of any keybinding file the table resolves the macro-mode
\* token of every keycode of the static macro table, so a macro conversion of
\* keycodes of the static macro table never fails with an unbound-key error.
C6_StaticKeysResolve ==
    (conv.mode = "macro" /\ Range(conv.keycodes) \subseteq DOMAIN KEY_LIST_macro) =>
        /\ \A k \in DOMAIN KEY_LIST_macro :
              KEY_LIST_macro[k] \in DOMAIN KEY_LIST
        /\ conv.error # "not bound"

\* C7: translate_keycode(k, mode) is the token the mode's static table
\* assigns to k when k is in the table, and k itself otherwise.
C7_TranslateTable ==
    (xlat.mode \in {"key", "macro"}) =>
        \A i \in 1..Len(xlat.keycodes) :
            xlat.keys[i] =
                IF xlat.keycodes[i] \in DOMAIN KEY_LIST_static[xlat.mode]
                THEN KEY_LIST_static[xlat.mode][xlat.keycodes[i]]
                ELSE xlat.keycodes[i]

\* the keycodes the claim gives for a command string: '{...}' tokens, '+!',
\* '!' and '^' whole, every other character alone
RECURSIVE ClaimTokens(_)
ClaimTokens(s) ==
    IF Len(s) = 0 THEN <<>>
    ELSE IF Ch(s, 1) = "{" /\ \E j \in 2..Len(s) : Ch(s, j) = "}"
    THEN LET j == CHOOSE j \in 2..Len(s) :
                    /\ Ch(s, j) = "}"
                    /\ \A m \in 2..(j - 1) : Ch(s, m) # "}"
         IN  <<SubSeq(s, 1, j)>> \o ClaimTokens(From(s, j + 1))
    ELSE IF Len(s) >= 2 /\ Ch(s, 1) = "+" /\ Ch(s, 2) = "!"
    THEN <<"+!">> \o ClaimTokens(From(s, 3))
    ELSE <<Ch(s, 1)>> \o ClaimTokens(From(s, 2))

\* C8: split_keystring_into_keycodes returns, for every command string, the
\* claim's keycodes in order, and does not fail.
C8_SplitTokens ==
    split_call.pc = "returned" =>
        /\ ~split_call.raised
        /\ split_call.codes = ClaimTokens(split_call.keystring)

\* plot was given an empty plot list and has returned
EmptyPlotDone == ppc = "done" /\ area.count = 0

\* the two renderings of the empty keycode list
EmptyRenders ==
    \A f \in Files :
        /\ convert_keys(KEY_LIST, f, <<>>, "key", "mytitle", "").text = ""
        /\ convert_keys(KEY_LIST, f, <<>>, "macro", "mytitle", "").text
              = "mytitle\nEnd of macro\n"

\* C9 as stated: an empty plot list yields the empty keycode list, whatever
\* the build configuration holds.
C9_EmptyPlotEmptyKeys ==
    EmptyPlotDone => plot_keys = <<>> /\ EmptyRenders

\* C9 amended: an empty plot list yields exactly the configuration's 'init'
\* keycodes; when there are none the list is empty, key mode renders the empty
\* string and macro mode the title line followed by 'End of macro'.
C9_EmptyPlotInitKeys ==
    EmptyPlotDone =>
        /\ plot_keys = config0.init
        /\ config0.init = <<>> => (plot_keys = <<>> /\ EmptyRenders)

\* an empty plot list under a configuration with init keycodes
C9_Witness ==
    /\ EmptyPlotDone
    /\ config0.init # <<>>
    /\ plot_keys = config0.init

\* the 16 displacements of the single-step and jump keycodes
MoveVectors ==
    {Advance(Point(0, 0), delta(c), n) : c \in Compasses, n \in {1, JumpLen}}

\* the positions reachable from S with at most n keycodes inside the grid
RECURSIVE ReachWithin(_, _, _)
ReachWithin(g, S, n) ==
    IF n = 0 THEN S
    ELSE ReachWithin(g,
            S \cup {q \in {Point(p.x + v.x, p.y + v.y) : p \in S, v \in MoveVectors} :
                        InGrid(g, q)},
            n - 1)

\* C10 as stated: with jumps allowed and start and end inside the grid, no
\* shorter sequence of single-step and jump keycodes that stays inside the
\* grid moves the cursor from start to end.
C10_Minimal ==
    (mpc = "done" /\ allowjumps /\ zoffset = 0
        /\ InGrid(grid, origin) /\ InGrid(grid, end) /\ keys # <<>>) =>
        end \notin ReachWithin(grid, {origin}, Len(keys) - 1)

\* C10 amended: no sequence of single-step keycodes alone is shorter than the
\* list move returns: the list holds at most max(|dx|, |dy|) keycodes.
C10_NoLongerThanSingleSteps ==
    (mpc = "done" /\ allowjumps /\ zoffset = 0
        /\ InGrid(grid, origin) /\ InGrid(grid, end)) =>
        Len(keys) <= Chebyshev(origin, end)

\* a move that jumps, and is shorter than the single-step path
C10_Witness ==
    /\ mpc = "done"
    /\ allowjumps
    /\ zoffset = 0
    /\ InGrid(grid, origin) /\ InGrid(grid, end)
    /\ \E c \in Compasses : JumpKey(c) \in Range(keys)
    /\ Len(keys) < Chebyshev(origin, end)

\* the title line of the last conversion: the caller's, or the generated one
TitleLines ==
    IF conv.title = "" THEN {"@@@qf" \o r : r \in RandomNumbers}
    ELSE {conv.title}

\* every translated keycode of the last conversion has binding lines
AllBound == \A i \in 1..Len(conv.keys) : conv.keys[i] \in DOMAIN KEY_LIST

\* per keycode, the lines the table binds to it and an 'End of group' line
RECURSIVE BoundGroups(_, _)
BoundGroups(kb, ks) ==
    IF ks = <<>> THEN <<>>
    ELSE kb[Head(ks)] \o <<"\tEnd of group">> \o BoundGroups(kb, Tail(ks))

\* the same, with the one line LEAVESCREEN in place of the lines bound to '^'
RECURSIVE LeaveGroups(_, _)
LeaveGroups(kb, ks) ==
    IF ks = <<>> THEN <<>>
    ELSE (IF Head(ks) = "^" THEN <<"\t\tLEAVESCREEN">> ELSE kb[Head(ks)])
         \o <<"\tEnd of group">> \o LeaveGroups(kb, Tail(ks))

\* the text whose lines are ls, each ended by a newline
RECURSIVE TextOf(_)
TextOf(ls) == IF ls = <<>> THEN "" ELSE Head(ls) \o "\n" \o TextOf(Tail(ls))

GroupEnds(ls) == Cardinality({i \in 1..Len(ls) : ls[i] = "\tEnd of group"})

\* C11 as stated: when every translated keycode is bound, the macro text is
\* the title line, then per keycode in input order the command lines bound to
\* it followed by an 'End of group' line, then 'End of macro', and ends with a
\* newline.
C11_MacroFormat ==
    (conv.mode = "macro" /\ AllBound) =>
        /\ conv.kind = "text"
        /\ \E t \in TitleLines :
              conv.text = TextOf(<<t>> \o BoundGroups(KEY_LIST, conv.keys)
                                     \o <<"End of macro">>)

\* C11 amended: the same layout, where the keycode '^' contributes the single
\* line LEAVESCREEN instead of the lines bound to it; the number of 'End of
\* group' lines is the number of keycodes.
C11_MacroFormatLeave ==
    (conv.mode = "macro" /\ AllBound) =>
        /\ conv.kind = "text"
        /\ \E t \in TitleLines :
              conv.text = TextOf(<<t>> \o LeaveGroups(KEY_LIST, conv.keys)
                                     \o <<"End of macro">>)
        /\ GroupEnds(LeaveGroups(KEY_LIST, conv.keys)) = Len(conv.keys)

\* a macro of a key bound by two groups followed by a bound '^'
C11_Witness ==
    /\ conv.mode = "macro"
    /\ conv.kind = "text"
    /\ conv.keys = <<"0:Enter", "^">>
    /\ Len(KEY_LIST["0:Enter"]) > 1
    /\ "^" \in DOMAIN KEY_LIST

\* the key identifiers a bind-group lists, and its action name
ClaimKeyIds(g) ==
    {SubSeq(g.lines[i], 6, Len(g.lines[i]) - 1) :
        i \in {j \in 1..Len(g.lines) : g.lines[j] # ""}}
ClaimAction(g) ==
    SubSeq(g.header, 1,
           (CHOOSE i \in 1..Len(g.header) :
                /\ Ch(g.header, i) = ":"
                /\ \A j \in 1..(i - 1) : Ch(g.header, j) # ":") - 1)

\* the action names, tab-indented, of the groups of f that bind k, in order
RECURSIVE ClaimBindings(_, _)
ClaimBindings(f, k) ==
    IF f = <<>> THEN <<>>
    ELSE (IF k \in ClaimKeyIds(Head(f))
          THEN <<"\t\t" \o ClaimAction(Head(f))>> ELSE <<>>)
         \o ClaimBindings(Tail(f), k)

FileKeyIds == UNION {ClaimKeyIds(file[i]) : i \in 1..Len(file)}

\* C12: after one parse of the keybinding file, the list of every key the file
\* binds holds the tab-indented action name of each group that binds it, once
\* each, in file order.
C12_DuplicateBindingsAppend ==
    parses = 1 =>
        \A k \in FileKeyIds :
            /\ k \in DOMAIN KEY_LIST
            /\ KEY_LIST[k] = ClaimBindings(file, k)

\* one parse of a file whose two groups bind the same key
C12_Witness ==
    /\ parses = 1
    /\ file = FileDouble
    /\ KEY_LIST["0:Enter"] = <<"\t\tSELECT", "\t\tMENU_CONFIRM">>

\* floor(sqrt(n)), by its defining inequality
FloorSqrt(n) == CHOOSE r \in 0..n : r * r <= n /\ n < (r + 1) * (r + 1)

C14_TablesReadOnly ==
    /\ KEY_LIST["key"] = KEY_LIST_key
    /\ KEY_LIST["macro"] = KEY_LIST_macro
    /\ parses >= 1 =>
          \A k \in FileKeyIds : KEY_LIST[k] = ClaimBindings(file, k)
    /\ (conv.mode = "macro" /\ conv.title # "" /\ conv.kind = "text") =>
          conv.text = convert_keys(KEY_LIST_static, file, conv.keycodes,
                                   "macro", conv.title, "").text

\* C15: when plot has returned, every list the build configuration holds (the
\* 'init' keycodes, the samecmd and diffcmd templates, the designate pattern)
\* has the contents it had before the call, so that a second call with the
\* same arguments starts from the same lists and returns an equal list.
C15_ConfigListsUnchanged ==
    ppc = "done" =>
        /\ buildconfig = config0
        /\ InitKeys(buildconfig) = InitKeys(config0)

\* the branch the next loop iteration takes
TakesJumpBranch ==
    /\ mpc = "loop" /\ start # end
    /\ ~UseSingles(allowjumps, MoveSteps(start, end), allow_backtrack)
    /\ MoveSteps(start, end) % JumpLen >= JumpThreshold
OverjumpTest ==
    Advance(start, delta(get_direction(start, end)),
            JumpLen * (MoveSteps(start, end) \div JumpLen + 1))
\* a loop iteration that carries the cursor further than the steps it needed
Overjumps ==
    /\ mpc = "loop" /\ start # end
    /\ Chebyshev(start, start') > MoveSteps(start, end)
TakesFallback == TakesJumpBranch /\ is_out_of_bounds(grid, OverjumpTest)

\* C16: the loop of move ends for every start, end and grid bounds: the call
\* returns; an overjump leaves a correction of fewer than 8 single steps; and
\* after an out-of-bounds overjump test backtracking is off, so the iteration
\* that follows does not make the test again.
C16_MoveTerminates ==
    /\ <>(mpc = "done")
    /\ [][Overjumps =>
            (start' = end \/ MoveSteps(start', end) < JumpThreshold)]_vars
    /\ [][TakesFallback => (~allow_backtrack' /\ ~TakesJumpBranch')]_vars

\* a returned move that overjumped and stepped back
C16_Witness ==
    /\ mpc = "done"
    /\ zoffset = 0
    /\ \E c, d \in Compasses :
        /\ delta(d) = Point(-delta(c).x, -delta(c).y)
        /\ JumpKey(c) \in Range(keys)
        /\ StepKey(d) \in Range(keys)

\* the designate pattern holds 'moveto' and then 'setsize', once each
MovesThenSizes(pattern) ==
    \E i, j \in 1..Len(pattern) :
        /\ i < j
        /\ pattern[i] = "moveto" /\ pattern[j] = "setsize"
        /\ \A m \in 1..Len(pattern) :
              /\ pattern[m] = "moveto" => m = i
              /\ pattern[m] = "setsize" => m = j

\* C17: when the designate pattern holds 'moveto' and then 'setsize' once
\* each, after every processed prefix of the plot list the cursor is the
\* position reached by replaying, from the initial cursor, every keycode
\* emitted so far (steps move 1 unit, jumps 10, all other keycodes nothing).
C17_CursorIsReplay ==
    (ppc \in {"loop", "done"} /\ MovesThenSizes(config0.designate)) =>
        cursor = Replay(cursor0, plot_keys)

\* two areas processed with the build sizing, the cursor away from its start
C17_Witness ==
    /\ AreaProcessed
    /\ area.count = 2
    /\ MovesThenSizes(config0.designate)
    /\ config0.setsize = "setsize_build"
    /\ "[widen]" \in Range(plot_keys)
    /\ \E c \in Compasses : JumpKey(c) \in Range(plot_keys)
    /\ cursor # cursor0
    /\ cursor = Replay(cursor0, plot_keys)

\* the submenu the target is in after the slots' keys, when it was in prev
\* before them: each '^' of 'exitmenu' leaves, each key of 'menu' enters
ImpliedSubmenu(prev, exitmenu, menu) ==
    IF menu # <<>> THEN menu[Len(menu)]
    ELSE IF exitmenu # <<>> THEN ""
    ELSE prev

\* C18: for every processed command (the designate pattern emitting both
\* submenu slots) the submenu implied by the emitted submenu keys is
\* last_submenu: an exit '^' is emitted only when a submenu entered before is
\* still open, and the implied submenu after the command's keys is the
\* tracker's.
C18_ImpliedSubmenu ==
    (area.count > 0 /\ ppc \in {"subst", "loop", "done"}
        /\ {"exitmenu", "menu"} \subseteq Range(config0.designate)) =>
        /\ subs.exitmenu # <<>> => area.prev_submenu # ""
        /\ ImpliedSubmenu(area.prev_submenu, subs.exitmenu, subs.menu)
              = last_submenu

\* C19: when start and end are inside the grid, every position the cursor
\* passes through while the returned keycodes are replayed in order, the
\* landing point of an overjump included, is inside the grid.
C19_PathInsideGrid ==
    (mpc = "done" /\ InGrid(grid, origin) /\ InGrid(grid, end)) =>
        \A i \in 0..Len(keys) :
            InGrid(grid, Replay(origin, SubSeq(keys, 1, i)))

\* a move inside the grid that overjumped, and one that was refused the
\* overjump at the grid's edge: eight or more single steps beside a jump
C19_Witness ==
    /\ mpc = "done"
    /\ allowjumps
    /\ InGrid(grid, origin) /\ InGrid(grid, end)
    /\ \E c \in Compasses :
        /\ JumpKey(c) \in Range(keys)
        /\ Cardinality({i \in 1..Len(keys) : keys[i] = StepKey(c)})
              >= JumpThreshold
    /\ \A i \in 0..Len(keys) :
          InGrid(grid, Replay(origin, SubSeq(keys, 1, i)))

\* every translated keycode of the last conversion other than '^' is bound
OthersBound ==
    \A i \in 1..Len(conv.keys) :
        conv.keys[i] # "^" => conv.keys[i] \in DOMAIN KEY_LIST

\* C20: a macro conversion of keycodes that hold the exit-menu key '^' never
\* fails on '^', whether or not the keybinding file binds it; when the other
\* keycodes are bound the text holds, for each '^', the line LEAVESCREEN
\* followed by 'End of group'.
C20_LeaveScreenAlways ==
    (conv.mode = "macro" /\ "^" \in Range(conv.keys)) =>
        /\ ~(conv.kind = "error" /\ conv.key = "^")
        /\ OthersBound =>
              /\ conv.kind = "text"
              /\ \E t \in TitleLines :
                    conv.text = TextOf(<<t>> \o LeaveGroups(KEY_LIST, conv.keys)
                                           \o <<"End of macro">>)

====
